---------------------------- MODULE Spec2Model ----------------------------
(***************************************************************************)
(* excalidraw-fs: the directory scanner, the file-system context           *)
(* (FileSystemProvider), the explorer handlers that call it and the        *)
(* editor's load / debounced-save cycle.                                   *)
(*                                                                         *)
(* Strings are sequences of one-character strings, so that endsWith,       *)
(* startsWith, concatenation and localeCompare are computed, not assumed.  *)
(* A file-system handle is the absolute path of its entry: the sequence of *)
(* names from the picked directory down to the entry.                      *)
(***************************************************************************)
EXTENDS Integers, Sequences, FiniteSets, TLC

VARIABLES
    disk,          \* on-disk entries: path -> [kind, content]
    storedHandle,  \* idb-keyval entry DIR_HANDLE_KEY (NoHandle when absent)
    rootHandle,    \* useState rootHandle (NoHandle for null)
    fileTree,      \* useState fileTree: sequence of FileNode
    selectedFile,  \* useState selectedFile (NoNode for null)
    ops,           \* handlers in flight: id -> task record (pc = position)
    seenSelection, \* Editor: the selectedFile its effects last ran for
    initialData,   \* Editor useState initialData (NoData for null)
    isLoading,     \* Editor useState isLoading
    error,         \* Editor useState error (NoError for null)
    loads,         \* Editor: the handles whose loadFile awaits readFileContent
    saveTimeoutRef,\* Editor useRef: id of the timer set last (0 for null)
    timers,        \* setTimeout callbacks not yet run or cleared
    saves,         \* saveFileContent calls in flight
    evCount,       \* number of change events so far (the next timer id)
    burst          \* observation: the change events since the last quiet period

fsVars == <<disk, storedHandle, rootHandle, fileTree, selectedFile, ops>>

editorVars ==
    <<seenSelection, initialData, isLoading, error, loads, saveTimeoutRef, timers,
      saves, evCount, burst>>

vars ==
    <<disk, storedHandle, rootHandle, fileTree, selectedFile, ops, seenSelection,
      initialData, isLoading, error, loads, saveTimeoutRef, timers, saves,
      evCount, burst>>

(* null, for a handle and for a FileNode *)
NoHandle == <<>>

NoNode ==
    [id |-> <<>>, name |-> <<>>, kind |-> "none", handle |-> <<>>, children |-> <<>>]

-----------------------------------------------------------------------------
(* Strings                                                                 *)

Suffix == <<".", "e", "x", "c", "a", "l", "i", "d", "r", "a", "w">>

Slash == <<"/">>

Min(a, b) == IF a < b THEN a ELSE b

startsWith(s, p) == Len(s) >= Len(p) /\ SubSeq(s, 1, Len(p)) = p

endsWith(s, p) ==
    Len(s) >= Len(p) /\ SubSeq(s, Len(s) - Len(p) + 1, Len(s)) = p

(* Collation of localeCompare (root locale): letters compare first by      *)
(* their base letter, whatever the case; punctuation sorts before digits   *)
(* and digits before letters; only when the base letters of two strings    *)
(* agree throughout does the case decide, lower case first.                *)
Alphabet ==
    <<".", "/", "1", "2", "a", "b", "c", "d", "e", "h", "i", "l", "r", "w", "x">>

BaseOf(c) == IF c = "A" THEN "a" ELSE IF c = "B" THEN "b" ELSE c

IsUpper(c) == c \in {"A", "B"}

PrimaryWeight(c) == CHOOSE i \in 1..Len(Alphabet) : Alphabet[i] = BaseOf(c)

TertiaryWeight(c) == IF IsUpper(c) THEN 1 ELSE 0

RECURSIVE CompareLevel(_, _, _)
CompareLevel(x, y, level) ==
    IF x = <<>> /\ y = <<>> THEN 0
    ELSE IF x = <<>> THEN -1
    ELSE IF y = <<>> THEN 1
    ELSE LET wx == IF level = 1 THEN PrimaryWeight(Head(x)) ELSE TertiaryWeight(Head(x))
             wy == IF level = 1 THEN PrimaryWeight(Head(y)) ELSE TertiaryWeight(Head(y))
         IN  IF wx < wy THEN -1
             ELSE IF wx > wy THEN 1
             ELSE CompareLevel(Tail(x), Tail(y), level)

localeCompare(x, y) ==
    LET p == CompareLevel(x, y, 1)
    IN  IF p # 0 THEN p ELSE CompareLevel(x, y, 2)

-----------------------------------------------------------------------------
(* Names and disks                                                         *)

nA == <<"a">>
nB == <<"B">>
nH == <<".", "h">>
nAx == nA \o Suffix
nBx == nB \o Suffix
nHx == nH \o Suffix
Root1 == <<<<"1">>>>
Root2 == <<<<"2">>>>

Names == {nA, nB, nH, nAx, nBx, nHx}

-----------------------------------------------------------------------------
(* File contents and JSON                                                  *)

(* A JSON object is a set of <<key, value>> pairs with one pair a key.     *)
(* A scalar is written as text: "s:.." a string, "n:.." a number, "null",  *)
(* "o:{}" an empty object, "undefined" (never in a JSON text).             *)
Has(obj, key) == \E p \in obj : p[1] = key

Get(obj, key) == IF Has(obj, key) THEN (CHOOSE p \in obj : p[1] = key)[2] ELSE "undefined"

Without(obj, key) == {p \in obj : p[1] # key}

With(obj, key, value) == Without(obj, key) \cup {<<key, value>>}

(* A JSON value: null, a number, or an object of which this program reads  *)
(* the members elements, appState and files (keys: the members present).   *)
JsonValue(type, keys, elements, appState, files) ==
    [type |-> type, keys |-> keys, elements |-> elements, appState |-> appState,
     files |-> files]

JsonNull == JsonValue("null", {}, <<>>, {}, {})

JsonNumber == JsonValue("number", {}, <<>>, {}, {})

(* The text of a file: a JSON text with its value, or any other text.      *)
RawText(s) == [json |-> FALSE, raw |-> s, value |-> JsonNull]

JsonText(v) == [json |-> TRUE, raw |-> "", value |-> v]

EmptyText == RawText("")

GarbageText == RawText("{oops")

DirEntry == [kind |-> "directory", content |-> EmptyText]

FileEntry(text) == [kind |-> "file", content |-> text]

Parent(p) == SubSeq(p, 1, Len(p) - 1)

Exists(d, p) == p \in DOMAIN d

IsDir(d, p) == Exists(d, p) /\ d[p].kind = "directory"

IsFile(d, p) == Exists(d, p) /\ d[p].kind = "file"

ChildrenOf(d, p) == {q \in DOMAIN d : Len(q) = Len(p) + 1 /\ Parent(q) = p}

Descendants(d, p) ==
    {q \in DOMAIN d : Len(q) > Len(p) /\ SubSeq(q, 1, Len(p)) = p}

-----------------------------------------------------------------------------
(* Directory scanner                                                       *)

(* dirHandle.entries(): the names of the directory's children, in the      *)
(* order the platform yields them.  ord is that order: a sequence of       *)
(* names without repetition; the platform may yield any.                   *)
entries(d, dirHandle, ord) ==
    SelectSeq(ord, LAMBDA n : Exists(d, Append(dirHandle, n)))

compareNodes(a, b) ==
    IF a.kind = b.kind THEN localeCompare(a.name, b.name)
    ELSE IF a.kind = "directory" THEN -1 ELSE 1

(* Array.prototype.sort with compareNodes: a stable sort.                  *)
RECURSIVE InsertNode(_, _)
InsertNode(n, s) ==
    IF s = <<>> THEN <<n>>
    ELSE IF compareNodes(n, Head(s)) < 0 THEN <<n>> \o s
    ELSE <<Head(s)>> \o InsertNode(n, Tail(s))

RECURSIVE sortNodes(_)
sortNodes(s) ==
    IF s = <<>> THEN <<>>
    ELSE InsertNode(s[Len(s)], sortNodes(SubSeq(s, 1, Len(s) - 1)))

(* skipEntry without the hidden-name test *)
skipEntry_NoHiddenTest(kind, name) == kind = "file" /\ ~endsWith(name, Suffix)

skipEntry(kind, name) ==
    \/ kind = "file" /\ ~endsWith(name, Suffix)
    \/ startsWith(name, <<".">>)

nodePathOf(path, name) == IF path # <<>> THEN path \o Slash \o name ELSE name

RECURSIVE scanDirectory(_, _, _, _)
RECURSIVE scanEntries(_, _, _, _, _)

(* The body of the for-await loop, over the names still to be yielded.     *)
scanEntries(d, dirHandle, path, ord, todo) ==
    IF todo = <<>> THEN <<>>
    ELSE LET name == Head(todo)
             handle == Append(dirHandle, name)
             kind == d[handle].kind
             nodePath == nodePathOf(path, name)
             rest == scanEntries(d, dirHandle, path, ord, Tail(todo))
         IN  IF skipEntry(kind, name) THEN rest
             ELSE <<[id |-> nodePath, name |-> name, kind |-> kind,
                     handle |-> handle,
                     children |-> IF kind = "directory"
                                  THEN sortNodes(scanDirectory(d, handle, nodePath, ord))
                                  ELSE <<>>]>> \o rest

(* scanDirectory returning the nodes in the order they were pushed *)
scanDirectory_NoSort(d, dirHandle, path, ord) ==
    scanEntries(d, dirHandle, path, ord, entries(d, dirHandle, ord))

scanDirectory(d, dirHandle, path, ord) ==
    sortNodes(scanEntries(d, dirHandle, path, ord, entries(d, dirHandle, ord)))

-----------------------------------------------------------------------------
(* Tree helpers                                                            *)

RECURSIVE NodesOf(_)
NodesOf(tree) ==
    IF tree = <<>> THEN {}
    ELSE {Head(tree)} \cup NodesOf(Head(tree).children) \cup NodesOf(Tail(tree))

(* Every sibling list of a tree: the root list and each directory's        *)
(* children.                                                               *)
SiblingLists(tree) ==
    {tree} \cup {n.children : n \in {m \in NodesOf(tree) : m.kind = "directory"}}

-----------------------------------------------------------------------------

-----------------------------------------------------------------------------
(* Bounds                                                                  *)

\* entries are created at most this many levels below the picked directory
MaxDepth == 2

\* the disk holds at most this many entries below the picked directories
MaxEntries == 3

OpIds == DOMAIN ops

(* The names a user types into the inline input (trimmed, non-empty).      *)
NameInputs == {nA, nAx, nH}

Roots == {Root1, Root2}

(* Orders in which the platform may enumerate the directories below dir:   *)
(* every arrangement of the names found there.                             *)
RECURSIVE SeqPerms(_)
SeqPerms(S) ==
    IF S = {} THEN {<<>>}
    ELSE UNION {{<<x>> \o p : p \in SeqPerms(S \ {x})} : x \in S}

EnumOrders(d, dir) == SeqPerms({q[Len(q)] : q \in Descendants(d, dir)})

-----------------------------------------------------------------------------
(* Platform: FileSystemDirectoryHandle                                     *)

(* getFileHandle(name, {create: true}) on directory dir: NotFoundError     *)
(* when dir is gone, TypeMismatchError when the name is a directory; an    *)
(* existing file is opened as it is, a missing one is created empty.       *)
getFileHandleOk(d, dir, name) == IsDir(d, dir) /\ ~IsDir(d, Append(dir, name))

(* getFileHandle replacing an existing file by an empty one *)
getFileHandle_Truncating(d, dir, name) ==
    (Append(dir, name) :> FileEntry(EmptyText)) @@ d

getFileHandle(d, dir, name) ==
    IF Exists(d, Append(dir, name)) THEN d
    ELSE (Append(dir, name) :> FileEntry(EmptyText)) @@ d

(* getDirectoryHandle(name, {create: true}): as above, for directories.    *)
getDirectoryHandleOk(d, dir, name) == IsDir(d, dir) /\ ~IsFile(d, Append(dir, name))

getDirectoryHandle(d, dir, name) ==
    IF Exists(d, Append(dir, name)) THEN d
    ELSE (Append(dir, name) :> DirEntry) @@ d

(* removeEntry(name, {recursive}): NotFoundError when the entry is gone,   *)
(* InvalidModificationError for a directory that has children unless       *)
(* recursive is set.                                                       *)
removeEntryOk(d, dir, name, recursive) ==
    /\ IsDir(d, dir)
    /\ Exists(d, Append(dir, name))
    /\ (recursive \/ ChildrenOf(d, Append(dir, name)) = {})

removeEntry(d, dir, name) ==
    LET gone == {Append(dir, name)} \cup Descendants(d, Append(dir, name))
    IN  [q \in DOMAIN d \ gone |-> d[q]]

(* isSameEntry: two handles are the same entry when their paths agree.     *)
isSameEntry(h1, h2) == h1 = h2

-----------------------------------------------------------------------------
(* Tasks: one record per handler in flight                                 *)

Idle ==
    [kind |-> "none", pc |-> "idle", parent |-> NoHandle, dest |-> NoHandle,
     name |-> <<>>, root |-> NoHandle, sel |-> NoNode, tree |-> <<>>,
     bytes |-> EmptyText, pre |-> <<>>, solo |-> TRUE, perm |-> "none"]

InFlight(i) == ops[i].pc # "idle"

Running(i) == ops[i].pc \notin {"idle", "done", "noop", "failed", "alert", "aborted", "logged"}

(* The handler starts in the lowest free slot.  A handler that shares any  *)
(* part of its life with another one is not solo, and neither is the other.*)
FreeSlot(i) == ~InFlight(i) /\ \A j \in OpIds : j < i => InFlight(j)

Interleave(o) ==
    [j \in OpIds |-> IF o[j].pc # "idle" THEN [o[j] EXCEPT !.solo = FALSE] ELSE o[j]]

Start(i, task) ==
    ops' = [Interleave(ops) EXCEPT
              ![i] = [task EXCEPT !.solo = \A j \in OpIds : ~InFlight(j)]]

(* The handler moves on to position pc.                                    *)
Step(i, pc) == ops' = [ops EXCEPT ![i].pc = pc]

(* The disk as the handler found it: what the claims compare against.      *)
NewTask(kind, pc, parent, name) ==
    [Idle EXCEPT !.kind = kind, !.pc = pc, !.parent = parent, !.name = name,
                 !.root = rootHandle, !.sel = selectedFile, !.pre = disk]

DirNodes(tree) == {n \in NodesOf(tree) : n.kind = "directory"}

FileNodes(tree) == {n \in NodesOf(tree) : n.kind = "file"}

EntryCount(d) == Cardinality({q \in DOMAIN d : Len(q) > 1})

-----------------------------------------------------------------------------
(* Explorer: the handlers that start an operation                          *)

(* handleClick on a file row: selectFile(node).  (A click on a directory   *)
(* row only folds or unfolds it.)                                          *)
HandleClick(node) ==
    /\ rootHandle # NoHandle
    /\ node \in FileNodes(fileTree)
    /\ selectedFile' = node
    /\ ops' = Interleave(ops)
    /\ UNCHANGED <<disk, storedHandle, rootHandle, fileTree>>
    /\ UNCHANGED editorVars

(* handleDelete, confirmed: deleteEntry(parentHandle, node.name).          *)
HandleDelete(i, node) ==
    /\ rootHandle # NoHandle
    /\ FreeSlot(i)
    /\ node \in NodesOf(fileTree)
    /\ Start(i, NewTask("delete", "fs", Parent(node.handle), node.name))
    /\ UNCHANGED <<disk, storedHandle, rootHandle, fileTree, selectedFile>>
    /\ UNCHANGED editorVars

(* handleInlineSubmit / handleRootInlineSubmit: createFile or createFolder *)
(* under the directory whose add button opened the input.                  *)
AddTargets == {rootHandle} \cup {n.handle : n \in DirNodes(fileTree)}

HandleInlineSubmit(i, type, parent, name) ==
    /\ rootHandle # NoHandle
    /\ FreeSlot(i)
    /\ parent \in AddTargets
    /\ Len(parent) <= MaxDepth
    /\ EntryCount(disk) < MaxEntries
    /\ Start(i, NewTask(type, "fs", parent, name))
    /\ UNCHANGED <<disk, storedHandle, rootHandle, fileTree, selectedFile>>
    /\ UNCHANGED editorVars

(* onDrop / handleRootDrop of a dragged file row on a directory row or on  *)
(* the root list, up to the await of isSameEntry.                          *)
OnDrop(i, node, dest) ==
    /\ rootHandle # NoHandle
    /\ FreeSlot(i)
    /\ node \in FileNodes(fileTree)
    /\ dest \in AddTargets
    /\ Start(i, [NewTask("move", "drop", Parent(node.handle), node.name)
                   EXCEPT !.dest = dest])
    /\ UNCHANGED <<disk, storedHandle, rootHandle, fileTree, selectedFile>>
    /\ UNCHANGED editorVars

(* the drop handler calling moveFile whatever isSameEntry answered *)
DropCheck_NoTest(i) ==
    /\ ops[i].kind = "move" /\ ops[i].pc = "drop"
    /\ Step(i, "mv_read")
    /\ UNCHANGED <<disk, storedHandle, rootHandle, fileTree, selectedFile>>
    /\ UNCHANGED editorVars

(* The drop handler after isSameEntry: it returns when the file was        *)
(* dropped on its own directory, otherwise it calls                        *)
(* moveFile(dragState.parentHandle, dest, name).                           *)
DropCheck(i) ==
    /\ ops[i].kind = "move" /\ ops[i].pc = "drop"
    /\ IF isSameEntry(ops[i].parent, ops[i].dest)
       THEN Step(i, "noop")
       ELSE Step(i, "mv_read")
    /\ UNCHANGED <<disk, storedHandle, rootHandle, fileTree, selectedFile>>
    /\ UNCHANGED editorVars

(* The two buttons that call openDirectory.                                *)
ClickOpenDirectory(i) ==
    /\ FreeSlot(i)
    /\ Start(i, NewTask("open", "picker", NoHandle, <<>>))
    /\ UNCHANGED <<disk, storedHandle, rootHandle, fileTree, selectedFile>>
    /\ UNCHANGED editorVars

-----------------------------------------------------------------------------
(* File-system context: the operations, one action per await               *)

(* the suffix appended whatever the name ends in *)
ensureExtension_Always(name) == name \o Suffix

ensureExtension(name) == IF endsWith(name, Suffix) THEN name ELSE name \o Suffix

(* createFile up to its refresh: a rejected getFileHandle is logged and    *)
(* rethrown.                                                               *)
CreateFileFs(i) ==
    LET t == ops[i]
        fileName == ensureExtension(t.name)
    IN  /\ t.kind = "file" /\ t.pc = "fs"
        /\ IF getFileHandleOk(disk, t.parent, fileName)
           THEN disk' = getFileHandle(disk, t.parent, fileName) /\ Step(i, "scan")
           ELSE UNCHANGED disk /\ Step(i, "failed")
        /\ UNCHANGED <<storedHandle, rootHandle, fileTree, selectedFile>>
        /\ UNCHANGED editorVars

CreateFolderFs(i) ==
    LET t == ops[i]
    IN  /\ t.kind = "folder" /\ t.pc = "fs"
        /\ IF getDirectoryHandleOk(disk, t.parent, t.name)
           THEN disk' = getDirectoryHandle(disk, t.parent, t.name) /\ Step(i, "scan")
           ELSE UNCHANGED disk /\ Step(i, "failed")
        /\ UNCHANGED <<storedHandle, rootHandle, fileTree, selectedFile>>
        /\ UNCHANGED editorVars

(* deleteEntry up to its refresh: removeEntry(name) without the recursive  *)
(* option, then the selection is cleared when its name is the deleted name *)
(* (the selection the handler's render saw).                               *)
deleteRecursive == FALSE

(* deleteEntry leaving the selection alone *)
clearsSelection_Never(sel, name) == FALSE

clearsSelection(sel, name) == sel # NoNode /\ sel.name = name

(* deleteEntry clearing the selection only when it is the removed entry *)
DeleteEntryFs_ByPath(i) ==
    LET t == ops[i]
    IN  /\ t.kind = "delete" /\ t.pc = "fs"
        /\ IF removeEntryOk(disk, t.parent, t.name, deleteRecursive)
           THEN /\ disk' = removeEntry(disk, t.parent, t.name)
                /\ selectedFile' = IF t.sel # NoNode /\ t.sel.handle = Append(t.parent, t.name)
                                   THEN NoNode ELSE selectedFile
                /\ Step(i, "scan")
           ELSE UNCHANGED <<disk, selectedFile>> /\ Step(i, "failed")
        /\ UNCHANGED <<storedHandle, rootHandle, fileTree>>
        /\ UNCHANGED editorVars

DeleteEntryFs(i) ==
    LET t == ops[i]
    IN  /\ t.kind = "delete" /\ t.pc = "fs"
        /\ IF removeEntryOk(disk, t.parent, t.name, deleteRecursive)
           THEN /\ disk' = removeEntry(disk, t.parent, t.name)
                /\ selectedFile' = IF clearsSelection(t.sel, t.name)
                                   THEN NoNode ELSE selectedFile
                /\ Step(i, "scan")
           ELSE UNCHANGED <<disk, selectedFile>> /\ Step(i, "failed")
        /\ UNCHANGED <<storedHandle, rootHandle, fileTree>>
        /\ UNCHANGED editorVars

(* refreshDirectory, first half: nothing to do without a root; otherwise   *)
(* the scan of the root, which is rejected when the root is gone.          *)
RefreshScan(i) ==
    LET t == ops[i]
    IN  /\ t.kind \in {"file", "folder", "delete", "move"} /\ t.pc = "scan"
        /\ IF t.root = NoHandle THEN Step(i, "done")
           ELSE IF ~IsDir(disk, t.root) THEN Step(i, "failed")
           ELSE \E ord \in EnumOrders(disk, t.root) :
                  ops' = [ops EXCEPT ![i].pc = "commit",
                                     ![i].tree = scanDirectory(disk, t.root, <<>>, ord)]
        /\ UNCHANGED <<disk, storedHandle, rootHandle, fileTree, selectedFile>>
        /\ UNCHANGED editorVars

(* refreshDirectory dropping the tree it scanned *)
RefreshCommit_NoSet(i) ==
    /\ ops[i].kind \in {"file", "folder", "delete", "move"} /\ ops[i].pc = "commit"
    /\ Step(i, "done")
    /\ UNCHANGED <<disk, storedHandle, rootHandle, fileTree, selectedFile>>
    /\ UNCHANGED editorVars

(* refreshDirectory, second half: setFileTree(tree).                       *)
RefreshCommit(i) ==
    LET t == ops[i]
    IN  /\ t.kind \in {"file", "folder", "delete", "move"} /\ t.pc = "commit"
        /\ fileTree' = t.tree
        /\ Step(i, "done")
        /\ UNCHANGED <<disk, storedHandle, rootHandle, selectedFile>>
        /\ UNCHANGED editorVars

(* The handlers whose catch block tells the user: handleDelete ("Failed to *)
(* delete"), onDrop and handleRootDrop ("Failed to move file").  The       *)
(* catch blocks of handleInlineSubmit and handleRootInlineSubmit are empty.*)
Alerts(kind) == kind \in {"delete", "move"}

(* The handler's catch block: alert(..), which blocks until dismissed.     *)
HandlerAlert(i) ==
    /\ ops[i].pc = "failed"
    /\ Alerts(ops[i].kind)
    /\ Step(i, "alert")
    /\ UNCHANGED <<disk, storedHandle, rootHandle, fileTree, selectedFile>>
    /\ UNCHANGED editorVars

(* The handler's continuation after the awaited operation settled, or      *)
(* after the alert was dismissed: the handler returns.  openDirectory      *)
(* returns from its catch block: "aborted" after the AbortError of a       *)
(* dismissed picker, "logged" after console.error of any other rejection.  *)
HandlerReturn(i) ==
    /\ \/ ops[i].pc \in {"done", "noop", "alert", "aborted", "logged"}
       \/ ops[i].pc = "failed" /\ ~Alerts(ops[i].kind)
    /\ ops' = [ops EXCEPT ![i] = Idle]
    /\ UNCHANGED <<disk, storedHandle, rootHandle, fileTree, selectedFile>>
    /\ UNCHANGED editorVars

(* openDirectory closing the directory when the picker is dismissed *)
OpenPicker_CancelCloses(i) ==
    /\ ops[i].kind = "open" /\ ops[i].pc = "picker"
    /\ \/ \E h \in Roots :
             /\ rootHandle' = h
             /\ ops' = [ops EXCEPT ![i].pc = "scan", ![i].root = h]
       \/ rootHandle' = NoHandle /\ Step(i, "aborted")
    /\ UNCHANGED <<disk, storedHandle, fileTree, selectedFile>>
    /\ UNCHANGED editorVars

(* openDirectory: the picker (AbortError when dismissed, swallowed without *)
(* a log), setRootHandle, the scan, setFileTree and setSelectedFile(null), *)
(* then the handle is stored for the next page load.  Every rejection is   *)
(* caught: openDirectory itself never rejects.                             *)
OpenPicker(i) ==
    /\ ops[i].kind = "open" /\ ops[i].pc = "picker"
    /\ \/ \E h \in Roots :
             /\ rootHandle' = h
             /\ ops' = [ops EXCEPT ![i].pc = "scan", ![i].root = h]
       \/ UNCHANGED rootHandle /\ Step(i, "aborted")
    /\ UNCHANGED <<disk, storedHandle, fileTree, selectedFile>>
    /\ UNCHANGED editorVars

OpenScan(i) ==
    LET t == ops[i]
    IN  /\ t.kind = "open" /\ t.pc = "scan"
        /\ IF ~IsDir(disk, t.root) THEN Step(i, "logged")
           ELSE \E ord \in EnumOrders(disk, t.root) :
                  ops' = [ops EXCEPT ![i].pc = "commit",
                                     ![i].tree = scanDirectory(disk, t.root, <<>>, ord)]
        /\ UNCHANGED <<disk, storedHandle, rootHandle, fileTree, selectedFile>>
        /\ UNCHANGED editorVars

(* openDirectory leaving the selection as it is *)
OpenCommit_KeepsSelection(i) ==
    /\ ops[i].kind = "open" /\ ops[i].pc = "commit"
    /\ fileTree' = ops[i].tree
    /\ Step(i, "store")
    /\ UNCHANGED <<disk, storedHandle, rootHandle, selectedFile>>
    /\ UNCHANGED editorVars

OpenCommit(i) ==
    /\ ops[i].kind = "open" /\ ops[i].pc = "commit"
    /\ fileTree' = ops[i].tree
    /\ selectedFile' = NoNode
    /\ Step(i, "store")
    /\ UNCHANGED <<disk, storedHandle, rootHandle>>
    /\ UNCHANGED editorVars

OpenStore(i) ==
    /\ ops[i].kind = "open" /\ ops[i].pc = "store"
    /\ storedHandle' = ops[i].root
    /\ Step(i, "done")
    /\ UNCHANGED <<disk, rootHandle, fileTree, selectedFile>>
    /\ UNCHANGED editorVars

(* A platform call openDirectory is waiting for (the scan, the write to    *)
(* the store) rejects: logged by the catch block.                          *)
OpenRejects(i) ==
    /\ ops[i].kind = "open"
    /\ ops[i].pc \in {"scan", "store"}
    /\ Step(i, "logged")
    /\ UNCHANGED <<disk, storedHandle, rootHandle, fileTree, selectedFile>>
    /\ UNCHANGED editorVars

(* restoreDirectory, run once when the provider mounts: get(DIR_HANDLE_KEY)*)
(* and return when nothing is stored.                                      *)
RestoreGet(i) ==
    /\ ops[i].kind = "restore" /\ ops[i].pc = "get"
    /\ IF storedHandle = NoHandle
       THEN Step(i, "done")
       ELSE ops' = [ops EXCEPT ![i].pc = "query", ![i].root = storedHandle]
    /\ UNCHANGED <<disk, storedHandle, rootHandle, fileTree, selectedFile>>
    /\ UNCHANGED editorVars

(* queryPermission({mode: 'readwrite'}): when granted, setRootHandle and   *)
(* go on to the scan; otherwise go on to requestPermission.                *)
RestoreQuery(i) ==
    /\ ops[i].kind = "restore" /\ ops[i].pc = "query"
    /\ \E permission \in {"granted", "prompt", "denied"} :
          IF permission = "granted"
          THEN /\ rootHandle' = ops[i].root
               /\ ops' = [ops EXCEPT ![i].pc = "scan", ![i].perm = "granted"]
          ELSE /\ UNCHANGED rootHandle
               /\ ops' = [ops EXCEPT ![i].pc = "request", ![i].perm = permission]
    /\ UNCHANGED <<disk, storedHandle, fileTree, selectedFile>>
    /\ UNCHANGED editorVars

(* requestPermission({mode: 'readwrite'}): when granted, setRootHandle and *)
(* go on to the scan; otherwise return.                                    *)
RestoreRequest(i) ==
    /\ ops[i].kind = "restore" /\ ops[i].pc = "request"
    /\ \E requested \in {"granted", "denied"} :
          IF requested = "granted"
          THEN /\ rootHandle' = ops[i].root
               /\ ops' = [ops EXCEPT ![i].pc = "scan", ![i].perm = "granted on request"]
          ELSE /\ UNCHANGED rootHandle
               /\ ops' = [ops EXCEPT ![i].pc = "done", ![i].perm = "refused"]
    /\ UNCHANGED <<disk, storedHandle, fileTree, selectedFile>>
    /\ UNCHANGED editorVars

(* scanDirectory(storedHandle), rejected when the directory is gone.       *)
RestoreScan(i) ==
    LET t == ops[i]
    IN  /\ t.kind = "restore" /\ t.pc = "scan"
        /\ IF ~IsDir(disk, t.root) THEN Step(i, "logged")
           ELSE \E ord \in EnumOrders(disk, t.root) :
                  ops' = [ops EXCEPT ![i].pc = "commit",
                                     ![i].tree = scanDirectory(disk, t.root, <<>>, ord)]
        /\ UNCHANGED <<disk, storedHandle, rootHandle, fileTree, selectedFile>>
        /\ UNCHANGED editorVars

(* setFileTree(tree) *)
RestoreCommit(i) ==
    /\ ops[i].kind = "restore" /\ ops[i].pc = "commit"
    /\ fileTree' = ops[i].tree
    /\ Step(i, "done")
    /\ UNCHANGED <<disk, storedHandle, rootHandle, selectedFile>>
    /\ UNCHANGED editorVars

(* A platform call restoreDirectory is waiting for rejects: caught, and    *)
(* logged with console.warn.                                               *)
RestoreRejects(i) ==
    /\ ops[i].kind = "restore"
    /\ ops[i].pc \in {"get", "query", "request", "scan"}
    /\ Step(i, "logged")
    /\ UNCHANGED <<disk, storedHandle, rootHandle, fileTree, selectedFile>>
    /\ UNCHANGED editorVars

(* moveFile(sourceParent, destParent, name): rejects a move onto the same  *)
(* directory; reads the source bytes, creates the same-named entry under   *)
(* the destination, writes the bytes, removes the source entry, refreshes. *)
MoveRead(i) ==
    LET t == ops[i]
    IN  /\ t.kind = "move" /\ t.pc = "mv_read"
        /\ IF ~isSameEntry(t.parent, t.dest) /\ IsFile(disk, Append(t.parent, t.name))
           THEN ops' = [ops EXCEPT ![i].pc = "mv_create",
                                   ![i].bytes = disk[Append(t.parent, t.name)].content]
           ELSE Step(i, "failed")
        /\ UNCHANGED <<disk, storedHandle, rootHandle, fileTree, selectedFile>>
        /\ UNCHANGED editorVars

MoveCreate(i) ==
    LET t == ops[i]
    IN  /\ t.kind = "move" /\ t.pc = "mv_create"
        /\ IF getFileHandleOk(disk, t.dest, t.name)
           THEN disk' = getFileHandle(disk, t.dest, t.name) /\ Step(i, "mv_write")
           ELSE UNCHANGED disk /\ Step(i, "failed")
        /\ UNCHANGED <<storedHandle, rootHandle, fileTree, selectedFile>>
        /\ UNCHANGED editorVars

(* moveFile going on to the removal without having written the bytes *)
MoveWrite_NoBytes(i) ==
    /\ ops[i].kind = "move" /\ ops[i].pc = "mv_write"
    /\ Step(i, "mv_remove")
    /\ UNCHANGED <<disk, storedHandle, rootHandle, fileTree, selectedFile>>
    /\ UNCHANGED editorVars

MoveWrite(i) ==
    LET t == ops[i]
    IN  /\ t.kind = "move" /\ t.pc = "mv_write"
        /\ IF IsFile(disk, Append(t.dest, t.name))
           THEN /\ disk' = [disk EXCEPT ![Append(t.dest, t.name)].content = t.bytes]
                /\ Step(i, "mv_remove")
           ELSE UNCHANGED disk /\ Step(i, "failed")
        /\ UNCHANGED <<storedHandle, rootHandle, fileTree, selectedFile>>
        /\ UNCHANGED editorVars

MoveRemove(i) ==
    LET t == ops[i]
    IN  /\ t.kind = "move" /\ t.pc = "mv_remove"
        /\ IF removeEntryOk(disk, t.parent, t.name, FALSE)
           THEN disk' = removeEntry(disk, t.parent, t.name) /\ Step(i, "scan")
           ELSE UNCHANGED disk /\ Step(i, "failed")
        /\ UNCHANGED <<storedHandle, rootHandle, fileTree, selectedFile>>
        /\ UNCHANGED editorVars

(* The platform call moveFile is waiting for rejects for a reason of the   *)
(* platform's own (an I/O error, a revoked permission).                    *)
MoveRejects(i) ==
    /\ ops[i].kind = "move"
    /\ ops[i].pc \in {"mv_read", "mv_create", "mv_write", "mv_remove"}
    /\ Step(i, "failed")
    /\ UNCHANGED <<disk, storedHandle, rootHandle, fileTree, selectedFile>>
    /\ UNCHANGED editorVars

-----------------------------------------------------------------------------
(* Editor: documents                                                       *)

NoData == [loaded |-> FALSE, elements |-> <<>>, appState |-> {}, files |-> {}]

Data(elements, appState, files) ==
    [loaded |-> TRUE, elements |-> elements, appState |-> appState, files |-> files]

NoError == ""

(* x || d takes d for a falsy x, x ?? d only for null and undefined.       *)
Falsy(v) == v \in {"undefined", "null", "s:", "n:0"}

Nullish(v) == v \in {"undefined", "null"}

(* The fallback document of a text that is not a diagram.                  *)
EmptyDocument ==
    Data(<<>>,
         {<<"viewBackgroundColor", "s:#ffffff">>, <<"currentItemFontFamily", "n:2">>,
          <<"currentItemRoughness", "n:0">>},
         {})

(* JSON.parse: throws on a text that is not JSON.                          *)
parseOk(text) == text.json

parse(text) == text.value

(* The document built from a parsed value; reading a member of null        *)
(* throws (TypeError).                                                     *)
documentOk(parsed) == parsed.type # "null"

document(parsed) ==
    LET src == IF "appState" \in parsed.keys THEN parsed.appState ELSE {}
        restAppState == Without(src, "collaborators")
        bg == Get(restAppState, "viewBackgroundColor")
        font == Get(restAppState, "currentItemFontFamily")
        rough == Get(restAppState, "currentItemRoughness")
    IN  Data(IF "elements" \in parsed.keys THEN parsed.elements ELSE <<>>,
             With(With(With(restAppState,
                  "viewBackgroundColor", IF Falsy(bg) THEN "s:#ffffff" ELSE bg),
                  "currentItemFontFamily", IF Nullish(font) THEN "n:2" ELSE font),
                  "currentItemRoughness", IF Nullish(rough) THEN "n:0" ELSE rough),
             IF "files" \in parsed.keys THEN parsed.files ELSE {})

(* What loadFile hands to setInitialData for a text that was read.         *)
loadedData(text) ==
    IF parseOk(text) /\ documentOk(parse(text)) THEN document(parse(text))
    ELSE EmptyDocument

(* JSON.stringify of an object: a member that is undefined is left out, a  *)
(* Map is written as an empty object.                                      *)
toJSON(obj) ==
    {<<p[1], IF p[2] = "map" THEN "o:{}" ELSE p[2]>> : p \in {q \in obj : q[2] # "undefined"}}

(* the save leaving the files member empty *)
stringify_NoFiles(elements, appState, files) ==
    JsonText(JsonValue("object", {"elements", "appState", "files"}, elements,
                       toJSON(appState), {}))

stringify(elements, appState, files) ==
    JsonText(JsonValue("object", {"elements", "appState", "files"}, elements,
                       toJSON(appState), files))

(* The states the drawing engine reports to onChange.                      *)
EngineStates ==
    { [elements |-> <<>>,
       appState |-> {<<"viewBackgroundColor", "s:#ffffff">>, <<"collaborators", "map">>},
       files |-> {}],
      [elements |-> <<"rect">>,
       appState |-> {<<"viewBackgroundColor", "s:#000000">>, <<"collaborators", "map">>,
                     <<"currentItemFontFamily", "n:1">>},
       files |-> {}] }

-----------------------------------------------------------------------------
(* Editor: effects, load, debounced save                                   *)

DebounceMs == 1000

TickMs == DebounceMs \div 2

MaxEvents == 2

NoBurst ==
    [n |-> 0, file |-> NoHandle, content |-> EmptyText, writes |-> 0,
     wfile |-> NoHandle, wcontent |-> EmptyText]

EditorStart ==
    /\ seenSelection = NoNode
    /\ initialData = NoData
    /\ isLoading = FALSE
    /\ error = NoError
    /\ loads = {}
    /\ saveTimeoutRef = 0
    /\ timers = {}
    /\ saves = {}
    /\ evCount = 0
    /\ burst = NoBurst

(* The effects with a cleanup that clears the pending timer *)
EditorEffect_CancelsSave ==
    /\ seenSelection # selectedFile
    /\ seenSelection' = selectedFile
    /\ initialData' = NoData
    /\ error' = NoError
    /\ isLoading' = IF selectedFile # NoNode THEN selectedFile.kind = "file" ELSE isLoading
    /\ loads' = IF selectedFile # NoNode /\ selectedFile.kind = "file"
                THEN loads \cup {selectedFile.handle} ELSE loads
    /\ timers' = {}
    /\ UNCHANGED <<saveTimeoutRef, saves, evCount, burst>>
    /\ UNCHANGED fsVars

(* The two effects on [selectedFile], run after the render that saw a new  *)
(* selection: reset, then loadFile() up to its await.                      *)
EditorEffect ==
    /\ seenSelection # selectedFile
    /\ seenSelection' = selectedFile
    /\ initialData' = NoData
    /\ error' = NoError
    /\ isLoading' = IF selectedFile # NoNode THEN selectedFile.kind = "file" ELSE isLoading
    /\ loads' = IF selectedFile # NoNode /\ selectedFile.kind = "file"
                THEN loads \cup {selectedFile.handle} ELSE loads
    /\ UNCHANGED <<saveTimeoutRef, timers, saves, evCount, burst>>
    /\ UNCHANGED fsVars

(* readFileContent: getFile() rejects (NotFoundError) when the file is     *)
(* gone.                                                                   *)
readFileContentOk(d, handle) == IsFile(d, handle)

readFileContent(d, handle) == d[handle].content

(* loadFile from its await on: the pending load of handle h settles.       *)
LoadSettle(h) ==
    /\ h \in loads
    /\ IF readFileContentOk(disk, h)
       THEN /\ initialData' = loadedData(readFileContent(disk, h))
            /\ UNCHANGED error
       ELSE /\ error' = "NotFoundError"
            /\ UNCHANGED initialData
    /\ isLoading' = FALSE
    /\ loads' = loads \ {h}
    /\ UNCHANGED <<seenSelection, saveTimeoutRef, timers, saves, evCount, burst>>
    /\ UNCHANGED fsVars

(* <Excalidraw> is rendered, with this render's handleChange.              *)
Mounted ==
    /\ selectedFile # NoNode
    /\ seenSelection = selectedFile
    /\ error = NoError
    /\ initialData # NoData

Pending == {t \in timers : t.id = saveTimeoutRef}

(* clearTimeout(saveTimeoutRef.current) *)
clearTimeout(ts, id) == {t \in ts : t.id # id}

(* handleChange without the clearTimeout *)
handleChangeTimers_NoClear(ts, id, t) == ts \cup {t}

handleChangeTimers(ts, id, t) == clearTimeout(ts, id) \cup {t}

(* handleChange(elements, appState, files) *)
HandleChange(st) ==
    /\ Mounted
    /\ evCount < MaxEvents
    /\ LET id == evCount + 1
           t == [id |-> id, file |-> selectedFile.handle, elements |-> st.elements,
                 appState |-> st.appState, files |-> st.files, left |-> DebounceMs]
           inBurst == \E p \in Pending : p.left > 0
           content == stringify(st.elements, st.appState, st.files)
       IN  /\ timers' = handleChangeTimers(timers, saveTimeoutRef, t)
           /\ saveTimeoutRef' = id
           /\ evCount' = id
           /\ burst' = IF inBurst /\ burst.file = selectedFile.handle
                       THEN [burst EXCEPT !.n = @ + 1, !.content = content]
                       ELSE [NoBurst EXCEPT !.n = 1, !.file = selectedFile.handle,
                                            !.content = content]
    /\ UNCHANGED <<seenSelection, initialData, isLoading, error, loads, saves>>
    /\ UNCHANGED fsVars

(* Time passes, up to the moment the next timer is due.                    *)
Tick ==
    /\ timers # {}
    /\ \A t \in timers : t.left > 0
    /\ timers' = {[t EXCEPT !.left = @ - TickMs] : t \in timers}
    /\ UNCHANGED <<seenSelection, initialData, isLoading, error, loads, saveTimeoutRef,
                   saves, evCount, burst>>
    /\ UNCHANGED fsVars

(* The timer callback, up to its await: saveFileContent(handle, content).  *)
TimerFire(t) ==
    /\ t \in timers
    /\ t.left <= 0
    /\ timers' = timers \ {t}
    /\ LET content == stringify(t.elements, t.appState, t.files)
       IN  /\ saves' = saves \cup {[id |-> t.id, file |-> t.file, content |-> content,
                                    pc |-> "createWritable"]}
           /\ burst' = [burst EXCEPT !.writes = @ + 1, !.wfile = t.file,
                                     !.wcontent = content]
    /\ UNCHANGED <<seenSelection, initialData, isLoading, error, loads, saveTimeoutRef,
                   evCount>>
    /\ UNCHANGED fsVars

(* saveFileContent: createWritable() rejects when the file is gone; the    *)
(* rejection is caught and logged by the timer callback.                   *)
SaveCreateWritable(s) ==
    /\ s \in saves
    /\ s.pc = "createWritable"
    /\ saves' = IF IsFile(disk, s.file)
                THEN (saves \ {s}) \cup {[s EXCEPT !.pc = "close"]}
                ELSE saves \ {s}
    /\ UNCHANGED <<seenSelection, initialData, isLoading, error, loads, saveTimeoutRef,
                   timers, evCount, burst>>
    /\ UNCHANGED fsVars

(* write(content) and close(): the content replaces the file's.            *)
SaveClose(s) ==
    /\ s \in saves
    /\ s.pc = "close"
    /\ saves' = saves \ {s}
    /\ disk' = IF IsFile(disk, s.file)
               THEN [disk EXCEPT ![s.file] = FileEntry(s.content)]
               ELSE disk
    /\ UNCHANGED <<seenSelection, initialData, isLoading, error, loads, saveTimeoutRef,
                   timers, evCount, burst>>
    /\ UNCHANGED <<storedHandle, rootHandle, fileTree, selectedFile, ops>>

-----------------------------------------------------------------------------
(* The explorer and the context                                            *)

RootsOnly == (Root1 :> DirEntry) @@ (Root2 :> DirEntry)

(* The picked directories as the user may have left them: empty, or with a *)
(* folder and a diagram whose bytes are not a diagram document.            *)
InitDisks ==
    { RootsOnly,
      (Append(Root1, nA) :> DirEntry) @@ (Append(Root1, nAx) :> FileEntry(GarbageText))
          @@ RootsOnly }

Init ==
    /\ disk \in InitDisks
    /\ storedHandle = NoHandle
    /\ rootHandle = NoHandle
    /\ fileTree = <<>>
    /\ selectedFile = NoNode
    /\ ops = <<Idle>>
    /\ EditorStart

Next ==
    \/ \E n \in FileNodes(fileTree) : HandleClick(n)
    \/ \E i \in OpIds : \E n \in NodesOf(fileTree) : HandleDelete(i, n)
    \/ \E i \in OpIds : \E type \in {"file", "folder"} : \E parent \in AddTargets :
          \E name \in NameInputs : HandleInlineSubmit(i, type, parent, name)
    \/ \E i \in OpIds : \E n \in FileNodes(fileTree) : \E dest \in AddTargets :
          OnDrop(i, n, dest)
    \/ \E i \in OpIds : DropCheck(i)
    \/ \E i \in OpIds : HandlerAlert(i)
    \/ \E i \in OpIds : ClickOpenDirectory(i)
    \/ \E i \in OpIds : CreateFileFs(i)
    \/ \E i \in OpIds : CreateFolderFs(i)
    \/ \E i \in OpIds : DeleteEntryFs(i)
    \/ \E i \in OpIds : RefreshScan(i)
    \/ \E i \in OpIds : RefreshCommit(i)
    \/ \E i \in OpIds : OpenPicker(i)
    \/ \E i \in OpIds : OpenScan(i)
    \/ \E i \in OpIds : OpenCommit(i)
    \/ \E i \in OpIds : OpenStore(i)
    \/ \E i \in OpIds : MoveRead(i)
    \/ \E i \in OpIds : MoveCreate(i)
    \/ \E i \in OpIds : MoveWrite(i)
    \/ \E i \in OpIds : MoveRemove(i)
    \/ \E i \in OpIds : HandlerReturn(i)

Spec == Init /\ [][Next]_vars

-----------------------------------------------------------------------------
(* The scanner on its own: any content of the picked directory, opened     *)
(* with openDirectory.                                                     *)

At(path, entry) == [path |-> Root1 \o path, entry |-> entry]

ScanCandidates ==
    { At(<<nA>>, DirEntry), At(<<nA>>, FileEntry(GarbageText)),
      At(<<nB>>, DirEntry),
      At(<<nAx>>, FileEntry(EmptyText)), At(<<nAx>>, DirEntry),
      At(<<nBx>>, FileEntry(EmptyText)),
      At(<<nH>>, DirEntry), At(<<nHx>>, FileEntry(EmptyText)),
      At(<<nA, nBx>>, FileEntry(EmptyText)), At(<<nA, nB>>, DirEntry),
      At(<<nH, nAx>>, FileEntry(EmptyText)),
      At(<<nA, nB, nA>>, FileEntry(GarbageText)) }

WellFormed(S) ==
    /\ \A x, y \in S : x.path = y.path => x = y
    /\ \A x \in S : Len(x.path) > 2 =>
          \E y \in S : y.path = Parent(x.path) /\ y.entry.kind = "directory"

DiskOf(S) ==
    [q \in {x.path : x \in S} |-> (CHOOSE x \in S : x.path = q).entry] @@ RootsOnly

ScanDisks == {DiskOf(S) : S \in {T \in SUBSET ScanCandidates : WellFormed(T)}}

ScanInit ==
    /\ disk \in ScanDisks
    /\ storedHandle = NoHandle
    /\ rootHandle = NoHandle
    /\ fileTree = <<>>
    /\ selectedFile = NoNode
    /\ ops = <<Idle>>
    /\ EditorStart

ScanNext ==
    \/ \E i \in OpIds : ClickOpenDirectory(i)
    \/ \E i \in OpIds : OpenPicker(i)
    \/ \E i \in OpIds : OpenScan(i)
    \/ \E i \in OpIds : OpenCommit(i)
    \/ \E i \in OpIds : OpenStore(i)
    \/ \E i \in OpIds : HandlerReturn(i)

ScanSpec == ScanInit /\ [][ScanNext]_vars

-----------------------------------------------------------------------------
(* The editor over an opened directory of two diagram files: one saved by  *)
(* the editor earlier, one whose text is not a diagram.                    *)

SavedText ==
    stringify(<<"rect">>,
              {<<"viewBackgroundColor", "s:">>, <<"collaborators", "map">>,
               <<"currentItemRoughness", "n:0">>, <<"zoom", "undefined">>},
              {"img"})

PartialText ==
    JsonText(JsonValue("object", {"appState"}, <<>>,
                       {<<"collaborators", "o:{}">>, <<"currentItemFontFamily", "null">>},
                       {}))

OtherTexts == {GarbageText, JsonText(JsonNull), PartialText}

EditorDisks ==
    { (Root1 :> DirEntry) @@ (Append(Root1, nAx) :> FileEntry(SavedText))
        @@ (Append(Root1, nBx) :> FileEntry(text)) : text \in OtherTexts }

(* Another program removes a file of the opened directory.                 *)
RemovedOutside(p) ==
    /\ IsFile(disk, p)
    /\ disk' = removeEntry(disk, Parent(p), p[Len(p)])
    /\ UNCHANGED <<storedHandle, rootHandle, fileTree, selectedFile, ops>>
    /\ UNCHANGED editorVars

EditorInit ==
    /\ disk \in EditorDisks
    /\ storedHandle = Root1
    /\ rootHandle = Root1
    /\ \E ord \in EnumOrders(disk, Root1) : fileTree = scanDirectory(disk, Root1, <<>>, ord)
    /\ selectedFile = NoNode
    /\ ops = <<Idle>>
    /\ EditorStart

EditorNext ==
    \/ \E n \in FileNodes(fileTree) : n.handle \notin loads /\ HandleClick(n)
    \/ \E p \in DOMAIN disk : RemovedOutside(p)
    \/ EditorEffect
    \/ \E h \in loads : LoadSettle(h)
    \/ \E st \in EngineStates : HandleChange(st)
    \/ Tick
    \/ \E t \in timers : TimerFire(t)
    \/ \E s \in saves : SaveCreateWritable(s)
    \/ \E s \in saves : SaveClose(s)

EditorSpec == EditorInit /\ [][EditorNext]_vars

-----------------------------------------------------------------------------
(* Drag and drop over an opened directory: a diagram that is not empty in  *)
(* the root, a folder to drop it on, and what else the folder may hold.    *)

MoveCandidates ==
    { At(<<nB>>, DirEntry),
      At(<<nA, nAx>>, FileEntry(EmptyText)), At(<<nA, nAx>>, DirEntry),
      At(<<nA, nBx>>, FileEntry(SavedText)) }

MoveDisks ==
    { DiskOf(S \cup {At(<<nA>>, DirEntry), At(<<nAx>>, FileEntry(GarbageText))}) :
        S \in {T \in SUBSET MoveCandidates : WellFormed(T)} }

MoveInit ==
    /\ disk \in MoveDisks
    /\ storedHandle = Root1
    /\ rootHandle = Root1
    /\ \E ord \in EnumOrders(disk, Root1) : fileTree = scanDirectory(disk, Root1, <<>>, ord)
    /\ selectedFile = NoNode
    /\ ops = <<Idle>>
    /\ EditorStart

MoveNext ==
    \/ \E n \in FileNodes(fileTree) : HandleClick(n)
    \/ \E i \in OpIds : \E n \in FileNodes(fileTree) : \E dest \in AddTargets :
          OnDrop(i, n, dest)
    \/ \E i \in OpIds : DropCheck(i)
    \/ \E i \in OpIds : MoveRead(i)
    \/ \E i \in OpIds : MoveCreate(i)
    \/ \E i \in OpIds : MoveWrite(i)
    \/ \E i \in OpIds : MoveRemove(i)
    \/ \E i \in OpIds : MoveRejects(i)
    \/ \E i \in OpIds : RefreshScan(i)
    \/ \E i \in OpIds : RefreshCommit(i)
    \/ \E i \in OpIds : HandlerAlert(i)
    \/ \E i \in OpIds : HandlerReturn(i)

MoveSpec == MoveInit /\ [][MoveNext]_vars

-----------------------------------------------------------------------------
(* The page is loaded: restoreDirectory runs, then the user opens          *)
(* directories and selects files.                                          *)

OpenDisks ==
    InitDisks \cup
    { (Append(Root1, nAx) :> FileEntry(GarbageText))
          @@ (Append(Root2, nB) :> DirEntry)
          @@ ((Root2 \o <<nB, nA>>) :> DirEntry)
          @@ (Append(Root2, nBx) :> FileEntry(EmptyText)) @@ RootsOnly }

OpenInit ==
    /\ disk \in OpenDisks
    /\ storedHandle \in {NoHandle} \cup Roots
    /\ rootHandle = NoHandle
    /\ fileTree = <<>>
    /\ selectedFile = NoNode
    /\ ops = <<[Idle EXCEPT !.kind = "restore", !.pc = "get"]>>
    /\ EditorStart

OpenNext ==
    \/ \E i \in OpIds : RestoreGet(i)
    \/ \E i \in OpIds : RestoreQuery(i)
    \/ \E i \in OpIds : RestoreRequest(i)
    \/ \E i \in OpIds : RestoreScan(i)
    \/ \E i \in OpIds : RestoreCommit(i)
    \/ \E i \in OpIds : RestoreRejects(i)
    \/ \E n \in FileNodes(fileTree) : HandleClick(n)
    \/ \E i \in OpIds : ClickOpenDirectory(i)
    \/ \E i \in OpIds : OpenPicker(i)
    \/ \E i \in OpIds : OpenScan(i)
    \/ \E i \in OpIds : OpenCommit(i)
    \/ \E i \in OpIds : OpenStore(i)
    \/ \E i \in OpIds : OpenRejects(i)
    \/ \E i \in OpIds : HandlerReturn(i)

OpenSpec == OpenInit /\ [][OpenNext]_vars

-----------------------------------------------------------------------------
(* Save and reload of one document: a.excalidraw is selected and loaded,   *)
(* the engine has just reported the document (handleChange has armed its   *)
(* timer), and the user moves between the two files while the save runs.   *)

(* The members an appState may hold: colours that are empty, numbers that  *)
(* are null, a member that is undefined, the collaborators Map.            *)
AppStateMembers ==
    { <<"viewBackgroundColor", "s:#000000">>, <<"viewBackgroundColor", "s:">>,
      <<"viewBackgroundColor", "undefined">>,
      <<"currentItemFontFamily", "n:1">>, <<"currentItemFontFamily", "null">>,
      <<"collaborators", "map">>,
      <<"zoom", "n:1">> }

AppStateKeys == {p[1] : p \in AppStateMembers} \cup {"currentItemRoughness"}

AppStates == {a \in SUBSET AppStateMembers : \A p, q \in a : p[1] = q[1] => p = q}

RoundTripDocuments ==
    [elements : {<<>>, <<"rect">>}, appState : AppStates, files : {{}, {"img"}}]

RoundTripInit ==
    /\ disk \in { (Root1 :> DirEntry) @@ (Append(Root1, nAx) :> FileEntry(text))
                    @@ (Append(Root1, nBx) :> FileEntry(GarbageText))
                  : text \in {GarbageText, SavedText} }
    /\ storedHandle = Root1
    /\ rootHandle = Root1
    /\ \E ord \in EnumOrders(disk, Root1) : fileTree = scanDirectory(disk, Root1, <<>>, ord)
    /\ selectedFile \in {n \in FileNodes(fileTree) : n.name = nAx}
    /\ ops = <<Idle>>
    /\ seenSelection = selectedFile
    /\ initialData = loadedData(readFileContent(disk, selectedFile.handle))
    /\ isLoading = FALSE
    /\ error = NoError
    /\ loads = {}
    /\ saves = {}
    /\ evCount = 1
    /\ saveTimeoutRef = 1
    /\ \E st \in RoundTripDocuments :
          /\ timers = {[id |-> 1, file |-> selectedFile.handle, elements |-> st.elements,
                        appState |-> st.appState, files |-> st.files,
                        left |-> DebounceMs]}
          /\ burst = [NoBurst EXCEPT !.n = 1, !.file = selectedFile.handle,
                        !.content = stringify(st.elements, st.appState, st.files)]

RoundTripNext ==
    \/ \E n \in FileNodes(fileTree) : n.handle \notin loads /\ HandleClick(n)
    \/ EditorEffect
    \/ \E h \in loads : LoadSettle(h)
    \/ Tick
    \/ \E t \in timers : TimerFire(t)
    \/ \E s \in saves : SaveCreateWritable(s)
    \/ \E s \in saves : SaveClose(s)

RoundTripSpec == RoundTripInit /\ [][RoundTripNext]_vars

-----------------------------------------------------------------------------
(* The editor over two diagrams that can be told apart: a.excalidraw holds *)
(* a rectangle, B.excalidraw an ellipse.  The engine reports the scene it  *)
(* was mounted with, as it is or with a line drawn on it.                  *)

EllipseText ==
    stringify(<<"ellipse">>, {<<"viewBackgroundColor", "s:#ffffff">>}, {})

(* onChange of the mounted <Excalidraw initialData={initialData}>.         *)
SceneStates(data) ==
    { [elements |-> data.elements \o more,
       appState |-> With(data.appState, "collaborators", "map"),
       files |-> data.files] : more \in {<<>>, <<"line">>} }

CrossFileInit ==
    /\ disk = (Root1 :> DirEntry) @@ (Append(Root1, nAx) :> FileEntry(SavedText))
                @@ (Append(Root1, nBx) :> FileEntry(EllipseText))
    /\ storedHandle = Root1
    /\ rootHandle = Root1
    /\ \E ord \in EnumOrders(disk, Root1) : fileTree = scanDirectory(disk, Root1, <<>>, ord)
    /\ selectedFile = NoNode
    /\ ops = <<Idle>>
    /\ EditorStart

CrossFileNext ==
    \/ \E n \in FileNodes(fileTree) : n.handle \notin loads /\ HandleClick(n)
    \/ EditorEffect
    \/ \E h \in loads : LoadSettle(h)
    \/ \E st \in SceneStates(initialData) : HandleChange(st)
    \/ Tick
    \/ \E t \in timers : TimerFire(t)
    \/ \E s \in saves : SaveCreateWritable(s)
    \/ \E s \in saves : SaveClose(s)

CrossFileSpec == CrossFileInit /\ [][CrossFileNext]_vars

-----------------------------------------------------------------------------
(* The explorer with two handlers in flight: nothing in the explorer or    *)
(* the context waits for a started operation before it starts the next.    *)

OverlapInit ==
    /\ disk = (Append(Root1, nAx) :> FileEntry(GarbageText)) @@ RootsOnly
    /\ storedHandle = Root1
    /\ rootHandle = Root1
    /\ \E ord \in EnumOrders(disk, Root1) : fileTree = scanDirectory(disk, Root1, <<>>, ord)
    /\ selectedFile = NoNode
    /\ ops = <<Idle, Idle>>
    /\ EditorStart

OverlapNext ==
    \/ \E i \in OpIds : \E n \in NodesOf(fileTree) : HandleDelete(i, n)
    \/ \E i \in OpIds : \E parent \in AddTargets :
          HandleInlineSubmit(i, "file", parent, nB)
    \/ \E i \in OpIds : CreateFileFs(i)
    \/ \E i \in OpIds : DeleteEntryFs(i)
    \/ \E i \in OpIds : RefreshScan(i)
    \/ \E i \in OpIds : RefreshCommit(i)
    \/ \E i \in OpIds : HandlerAlert(i)
    \/ \E i \in OpIds : HandlerReturn(i)

OverlapSpec == OverlapInit /\ [][OverlapNext]_vars

-----------------------------------------------------------------------------
(* Claims about the editor (EditorSpec)                                    *)

(* The burst under observation: the change events for one file, each       *)
(* arriving less than DebounceMs after the one before.  It is over when no *)
(* timer is left.                                                          *)
BurstOver == burst.n >= 1 /\ timers = {}

(* C1: debounce collapsing.  At most one save is ever pending.  While the  *)
(* timer of a burst of N >= 1 change events for a file is armed, no write  *)
(* has been performed for the burst; once the burst is over exactly one    *)
(* write has been performed, to that file, and its content is the          *)
(* serialization of the elements, appState and files of the last event.    *)
C1_DebounceCollapses ==
    /\ Cardinality(timers) <= 1
    /\ burst.n >= 1 /\ timers # {} => burst.writes = 0
    /\ BurstOver =>
          /\ burst.writes = 1
          /\ burst.wfile = burst.file
          /\ burst.wcontent = burst.content

(* Two events of one burst have collapsed into one write, which is on disk. *)
C1_Witness ==
    /\ BurstOver
    /\ burst.n >= 2
    /\ burst.writes = 1
    /\ saves = {}
    /\ IsFile(disk, burst.file)
    /\ disk[burst.file].content = burst.content

(* A step that changes the selection, or runs the effects of the change.   *)
SelectionStep == selectedFile' # selectedFile \/ seenSelection' # seenSelection

(* The callback of timer t runs in this step.                              *)
Fires(t) == t \in timers /\ t.left <= 0 /\ timers' = timers \ {t}

SettlesSelected(h) ==
    /\ h \in loads
    /\ loads' = loads \ {h}
    /\ selectedFile # NoNode
    /\ selectedFile.handle = h

(* The error state is what the render shows.                               *)
ErrorShown == selectedFile' # NoNode /\ error' # NoError

IsDiagram(text) == parseOk(text) /\ documentOk(parse(text))

(* C3: the load of the selected file ends in the visible error state if    *)
(* and only if the read fails; when the read succeeds and the text is not  *)
(* a diagram document, it ends without error and with the empty document.  *)
C3_LoadOutcome ==
    [][\A h \in loads :
          SettlesSelected(h) =>
             /\ ErrorShown <=> ~readFileContentOk(disk, h)
             /\ readFileContentOk(disk, h) /\ ~IsDiagram(readFileContent(disk, h)) =>
                   error' = NoError /\ initialData' = EmptyDocument]_vars

(* The same, for a load that settles with no other load pending and no     *)
(* error left by an earlier one.                                           *)
C3_AloneLoadOutcome ==
    [][\A h \in loads :
          SettlesSelected(h) /\ loads = {h} /\ error = NoError =>
             /\ ErrorShown <=> ~readFileContentOk(disk, h)
             /\ readFileContentOk(disk, h) /\ ~IsDiagram(readFileContent(disk, h)) =>
                   error' = NoError /\ initialData' = EmptyDocument]_vars

-----------------------------------------------------------------------------
(* Claims about the scanner (ScanSpec)                                     *)

(* openDirectory has just stored its scan of the picked directory.         *)
Scanned == \E i \in OpIds : ops[i].kind = "open" /\ ops[i].pc = "store"

(* No name on the way from the root down to the entry starts with a dot.   *)
NotHidden(q) ==
    \A k \in (Len(rootHandle) + 1)..Len(q) : ~startsWith(q[k], <<".">>)

DirsOnDisk == {q \in Descendants(disk, rootHandle) : IsDir(disk, q)}

HasDirNode(q) ==
    \E n \in NodesOf(fileTree) : n.handle = q /\ n.kind = "directory"

FilterHolds(tree) ==
    \A n \in NodesOf(tree) :
        /\ ~startsWith(n.name, <<".">>)
        /\ n.kind = "file" => endsWith(n.name, Suffix)

(* C7, as amended: at every depth a scanned tree holds no node whose name  *)
(* starts with '.', no file node whose name does not end in '.excalidraw', *)
(* and a node for every directory that is not hidden (no name on its path  *)
(* below the root starts with '.'), whatever its name otherwise and also   *)
(* when no child of it survives the filter.                                *)
C7_ScanFilter ==
    /\ FilterHolds(fileTree)
    /\ \A i \in OpIds : FilterHolds(ops[i].tree)
    /\ Scanned => \A q \in DirsOnDisk : NotHidden(q) => HasDirNode(q)

(* C7 as claimed: ... and a node for every directory, whatever its name.   *)
C7_EveryDirectoryKept ==
    /\ FilterHolds(fileTree)
    /\ Scanned => \A q \in DirsOnDisk : HasDirNode(q)

(* A scan of a directory that holds a hidden directory, a file without the *)
(* suffix, a directory named like a diagram, and a directory whose only    *)
(* child is filtered out and which is shown with no children.              *)
C7_Witness ==
    /\ Scanned
    /\ IsDir(disk, Root1 \o <<nH>>)
    /\ IsFile(disk, Root1 \o <<nA, nB, nA>>)
    /\ IsDir(disk, Root1 \o <<nAx>>)
    /\ \E n \in NodesOf(fileTree) :
          n.handle = Root1 \o <<nA, nB>> /\ n.children = <<>>
    /\ \E n \in NodesOf(fileTree) : n.handle = Root1 \o <<nAx>>

Ordered(list) ==
    \A i, j \in 1..Len(list) :
        i < j =>
            /\ list[i].kind = "file" => list[j].kind = "file"
            /\ list[i].kind = list[j].kind =>
                  localeCompare(list[i].name, list[j].name) < 0

(* C8: in every sibling list of a scanned tree, whatever the order of      *)
(* enumeration, the directories come before the files, and within each     *)
(* kind the names ascend in the order of localeCompare (lexicographic on   *)
(* the letters, the case deciding between names that differ in case only). *)
C8_SiblingsOrdered ==
    /\ \A list \in SiblingLists(fileTree) : Ordered(list)
    /\ \A i \in OpIds : \A list \in SiblingLists(ops[i].tree) : Ordered(list)

(* A stored scan with two directories and two files in the root list and a *)
(* directory and a file in a nested list.                                  *)
C8_Witness ==
    /\ Scanned
    /\ Len(fileTree) = 4
    /\ fileTree[1].name = nA /\ fileTree[2].name = nB
    /\ fileTree[3].name = nAx /\ fileTree[4].name = nBx
    /\ Len(fileTree[1].children) = 2

-----------------------------------------------------------------------------
(* Claims about the context operations (Spec)                              *)

(* The operation of handler i has settled, and from the call to this point *)
(* no other handler ran: the state is the one the operation left.          *)
Settled(i) == ops[i].pc \in {"done", "failed"} /\ ops[i].solo

Succeeded(i) == ops[i].pc = "done" /\ ops[i].solo

Target(i) == Append(ops[i].parent, ops[i].name)

NodesAt(tree, handle) == {n \in NodesOf(tree) : n.handle = handle}

IsPrefix(p, q) == Len(p) <= Len(q) /\ SubSeq(q, 1, Len(p)) = p

IsScanOfDisk(tree) ==
    \E ord \in EnumOrders(disk, rootHandle) :
        tree = scanDirectory(disk, rootHandle, <<>>, ord)

DeletedSelected(i) ==
    /\ ops[i].kind = "delete"
    /\ Succeeded(i)
    /\ ops[i].sel # NoNode
    /\ ops[i].sel.handle = Target(i)

(* C4: once deleteEntry(parent, name) for the selected node has completed  *)
(* successfully, the selection is none and the tree holds no node for the  *)
(* entry.                                                                  *)
C4_DeleteSelected ==
    \A i \in OpIds :
        DeletedSelected(i) =>
            /\ selectedFile = NoNode
            /\ NodesAt(fileTree, Target(i)) = {}

(* The selected file, shown in the tree next to a folder, has been deleted.*)
C4_Witness ==
    \E i \in OpIds :
        /\ DeletedSelected(i)
        /\ IsFile(ops[i].pre, Target(i))
        /\ ~Exists(disk, Target(i))
        /\ fileTree # <<>>

DeletesDirWithDescendants(i) ==
    /\ ops[i].kind = "delete"
    /\ Settled(i)
    /\ IsDir(ops[i].pre, Target(i))
    /\ Descendants(ops[i].pre, Target(i)) # {}

(* C5: deleteEntry on a directory that has descendants succeeds, removes   *)
(* the directory with all its descendants, and the refreshed tree holds    *)
(* neither the directory nor a node beneath it.                            *)
C5_DeleteIsRecursive ==
    \A i \in OpIds :
        DeletesDirWithDescendants(i) =>
            /\ ops[i].pc = "done"
            /\ \A q \in DOMAIN disk : ~IsPrefix(Target(i), q)
            /\ \A n \in NodesOf(fileTree) : ~IsPrefix(Target(i), n.handle)

Mutating(i) == ops[i].kind \in {"file", "folder", "delete", "move"}

(* C6: with the handlers run one at a time and the directory changed by    *)
(* nothing else, after every successful createFile, createFolder,          *)
(* deleteEntry or moveFile the tree is the scan of the root's contents at  *)
(* the moment the operation completes.                                     *)
C6_TreeIsScanAfterMutation ==
    \A i \in OpIds :
        Mutating(i) /\ Succeeded(i) => IsScanOfDisk(fileTree)

(* A successful operation that changed what the tree shows.                *)
C6_Witness ==
    \E i \in OpIds :
        /\ Mutating(i) /\ Succeeded(i)
        /\ ops[i].kind = "folder"
        /\ ops[i].pre # disk
        /\ Len(fileTree) >= 2
        /\ \E n \in NodesOf(fileTree) : n.children # <<>>

ExpectedFileName(name) == IF endsWith(name, Suffix) THEN name ELSE name \o Suffix

CreatedFile(i) == ops[i].kind = "file" /\ Succeeded(i)

ShowsCreatedFile(i) ==
    \E n \in NodesOf(fileTree) :
        /\ n.kind = "file"
        /\ n.name = ExpectedFileName(ops[i].name)
        /\ n.handle = Append(ops[i].parent, n.name)

(* C9, as amended: for every non-empty name that does not start with '.'   *)
(* and every parent directory shown in the tree, after createFile(parent,  *)
(* name) has completed successfully the tree holds under that parent a     *)
(* file node named name when name ends in '.excalidraw' and                *)
(* name + '.excalidraw' otherwise.                                         *)
C9_CreatedFileShown ==
    \A i \in OpIds :
        CreatedFile(i) /\ ~startsWith(ops[i].name, <<".">>) => ShowsCreatedFile(i)

(* C9 as claimed: for every non-empty name.                                *)
C9_EveryNameShown == \A i \in OpIds : CreatedFile(i) => ShowsCreatedFile(i)

(* A file created in a folder from a name without the suffix, and one      *)
(* created from a name that has it.                                        *)
C9_Witness ==
    \E i \in OpIds :
        /\ CreatedFile(i)
        /\ ops[i].name = nA
        /\ Len(ops[i].parent) = 2
        /\ ~Exists(ops[i].pre, Append(ops[i].parent, nAx))
        /\ ShowsCreatedFile(i)

CreateKind(i) == IF ops[i].kind = "file" THEN "file" ELSE "directory"

CreateTarget(i) ==
    Append(ops[i].parent,
           IF ops[i].kind = "file" THEN ExpectedFileName(ops[i].name) ELSE ops[i].name)

CreatedOverExisting(i) ==
    /\ ops[i].kind \in {"file", "folder"}
    /\ Settled(i)
    /\ Exists(ops[i].pre, CreateTarget(i))

ShownTimes(i) == Cardinality(NodesAt(fileTree, CreateTarget(i)))

(* C10, as amended: createFile or createFolder with a name for which an    *)
(* entry of the same kind exists in the parent (for createFile the name    *)
(* with '.excalidraw' appended when absent) raises no error, leaves the    *)
(* entry and a file's content as they were, and the following scan shows   *)
(* exactly one entry of that name under the parent, or none when the name  *)
(* starts with '.'.                                                        *)
C10_CreateIsIdempotent ==
    \A i \in OpIds :
        CreatedOverExisting(i) /\ ops[i].pre[CreateTarget(i)].kind = CreateKind(i) =>
            /\ ops[i].pc = "done"
            /\ disk = ops[i].pre
            /\ ShownTimes(i) = IF startsWith(ops[i].name, <<".">>) THEN 0 ELSE 1

(* C10 as claimed: whatever entry exists under the name, no error, the     *)
(* entry as it was, exactly one entry of that name in the scan.            *)
C10_AnyExistingEntry ==
    \A i \in OpIds :
        CreatedOverExisting(i) =>
            /\ ops[i].pc = "done"
            /\ disk[CreateTarget(i)] = ops[i].pre[CreateTarget(i)]
            /\ ShownTimes(i) = 1

(* createFile over an existing diagram whose content is not empty.         *)
C10_Witness ==
    \E i \in OpIds :
        /\ CreatedOverExisting(i)
        /\ ops[i].kind = "file"
        /\ ops[i].name = nA
        /\ ops[i].pre[CreateTarget(i)] = FileEntry(GarbageText)
        /\ ops[i].pc = "done"
        /\ ShownTimes(i) = 1

(* The file a moveFile moves, where it goes, and the bytes it had.         *)
MoveSource(i) == Append(ops[i].parent, ops[i].name)

MoveDest(i) == Append(ops[i].dest, ops[i].name)

HoldsBytes(d, p, bytes) == IsFile(d, p) /\ d[p].content = bytes

MovedBytes(i) == ops[i].pre[MoveSource(i)].content

(* C11: moveFile never loses the file.  At every point of a moveFile of an *)
(* existing file, and after a failure of any of its steps, the file's      *)
(* complete bytes are in the source directory, in the destination          *)
(* directory, or in both.                                                  *)
C11_MoveNeverLoses ==
    \A i \in OpIds :
        ops[i].kind = "move" /\ IsFile(ops[i].pre, MoveSource(i)) =>
            \/ HoldsBytes(disk, MoveSource(i), MovedBytes(i))
            \/ HoldsBytes(disk, MoveDest(i), MovedBytes(i))

(* A file that is not empty has been moved: gone from the source, whole in *)
(* the destination.                                                        *)
C11_Witness ==
    \E i \in OpIds :
        /\ ops[i].kind = "move" /\ ops[i].pc = "done"
        /\ IsFile(ops[i].pre, MoveSource(i))
        /\ MovedBytes(i) = GarbageText
        /\ ~Exists(disk, MoveSource(i))
        /\ HoldsBytes(disk, MoveDest(i), GarbageText)

(* A step of moveFile failed after the destination was written: the file   *)
(* is in both directories.                                                 *)
C11_Duplicated ==
    \E i \in OpIds :
        /\ ops[i].kind = "move" /\ ops[i].pc = "failed"
        /\ IsFile(ops[i].pre, MoveSource(i))
        /\ HoldsBytes(disk, MoveSource(i), GarbageText)
        /\ HoldsBytes(disk, MoveDest(i), GarbageText)

(* A file has been dropped on the directory it is in.                      *)
SameDrop(i) == ops[i].kind = "move" /\ isSameEntry(ops[i].parent, ops[i].dest)

LeavesFailure(i) == ops[i].pc = "failed" /\ ops'[i].pc # "failed"

(* C17: every failure of a mutating operation started from the explorer    *)
(* (create file, create folder, delete, move) is followed by a blocking    *)
(* notification, and the handler does not start the operation again.       *)
C17_FailuresAreAlerted ==
    [][\A i \in OpIds : LeavesFailure(i) => ops'[i].pc = "alert"]_vars

(* The same, for the handlers that have a notification in their catch      *)
(* block: delete and move.                                                 *)
C17_DeleteAndMoveAlerted ==
    [][\A i \in OpIds :
          LeavesFailure(i) /\ ops[i].kind \in {"delete", "move"} =>
             ops'[i].pc = "alert"]_vars

-----------------------------------------------------------------------------
(* Claims about openDirectory and restoreDirectory (OpenSpec)              *)

IsScanOf(tree, root) ==
    \E ord \in EnumOrders(disk, root) : tree = scanDirectory(disk, root, <<>>, ord)

(* openDirectory has completed: the directory was picked, the scan and the *)
(* write to the store succeeded, and no other handler ran meanwhile.       *)
Opened(i) == ops[i].kind = "open" /\ ops[i].pc = "done" /\ ops[i].solo

(* C13: when openDirectory completes after the user picked a directory and *)
(* the scan and the store write succeeded, the root is the picked          *)
(* directory, the tree is its scan, nothing is selected and the stored     *)
(* handle is the picked directory.                                         *)
C13_OpenDirectorySucceeds ==
    \A i \in OpIds :
        Opened(i) =>
            /\ rootHandle = ops[i].root
            /\ IsScanOf(fileTree, ops[i].root)
            /\ selectedFile = NoNode
            /\ storedHandle = ops[i].root

(* A directory with entries was opened while a file was selected and       *)
(* another directory was stored.                                           *)
C13_Witness ==
    \E i \in OpIds :
        /\ Opened(i)
        /\ ops[i].sel # NoNode
        /\ fileTree # <<>>
        /\ ops[i].sel \notin NodesOf(fileTree)

(* A step of the openDirectory call of slot i whose picker is dismissed:   *)
(* the call itself, the AbortError, the return.                            *)
CancelStep(i) ==
    /\ ops'[i].pc # ops[i].pc
    /\ \/ ops'[i].kind = "open" /\ ops'[i].pc \in {"picker", "aborted"}
       \/ ops[i].kind = "open" /\ ops[i].pc = "aborted"

(* C14: when the user dismisses the picker, openDirectory completes        *)
(* without an error raised or logged, and root, tree, selection and stored *)
(* handle are as they were before the call.                                *)
C14_CancelChangesNothing ==
    [][\A i \in OpIds :
          /\ CancelStep(i) =>
                UNCHANGED <<rootHandle, fileTree, selectedFile, storedHandle>>
          /\ ops[i].kind = "open" /\ ops[i].pc = "aborted" =>
                ops'[i].pc \in {"aborted", "idle"}]_vars

(* The picker was dismissed while a directory was open and a file selected.*)
C14_Witness ==
    \E i \in OpIds :
        /\ ops[i].kind = "open" /\ ops[i].pc = "aborted"
        /\ rootHandle # NoHandle
        /\ storedHandle # NoHandle
        /\ fileTree # <<>>
        /\ selectedFile # NoNode

(* restoreDirectory has ended: returned, or caught a rejection.            *)
Restored(i) == ops[i].kind = "restore" /\ ops[i].pc \in {"done", "logged"}

Granted(i) == ops[i].perm \in {"granted", "granted on request"}

(* C15: restoreDirectory never raises.  It leaves a directory open only    *)
(* when a handle was stored and read-write permission is granted, at once  *)
(* or on the request made when it was not; then the root is the stored     *)
(* handle and the tree its scan.  In every other case (nothing stored,     *)
(* permission refused, a rejection of any step, the scan included) the     *)
(* root is none and the tree is empty.                                     *)
C15_RestoreOutcome ==
    \A i \in OpIds :
        Restored(i) =>
            IF ops[i].pc = "done" /\ Granted(i)
            THEN /\ storedHandle # NoHandle
                 /\ rootHandle = storedHandle
                 /\ IsScanOf(fileTree, storedHandle)
            ELSE rootHandle = NoHandle /\ fileTree = <<>>

(* The same, except for a rejection after permission was granted: then the *)
(* root is already set (and the tree empty).                               *)
C15_RestoreOutcomeUnlessScanRejects ==
    \A i \in OpIds :
        Restored(i) =>
            IF ops[i].pc = "done" /\ Granted(i)
            THEN /\ storedHandle # NoHandle
                 /\ rootHandle = storedHandle
                 /\ IsScanOf(fileTree, storedHandle)
            ELSE /\ fileTree = <<>>
                 /\ rootHandle = IF Granted(i) THEN storedHandle ELSE NoHandle

-----------------------------------------------------------------------------
(* Claims about the write streams of the editor's saves (EditorSpec)       *)

(* The save holds a write stream: createWritable has resolved and close    *)
(* has not yet been called.                                                *)
StreamOpen(s) == s \in saves /\ s.pc = "close"

(* C16: at no time are two write streams open on the same file; a save     *)
(* opens its stream only after every earlier save to that file has closed  *)
(* its own, also when a save outlasts the debounce delay.                  *)
C16_OneWriteStream ==
    \A s1, s2 \in saves :
        StreamOpen(s1) /\ StreamOpen(s2) /\ s1.file = s2.file => s1 = s2

-----------------------------------------------------------------------------
(* Claims about saving and reloading a document (RoundTripSpec)            *)

(* The pending load of h settles, its read having succeeded.              *)
LoadReads(h) ==
    /\ h \in loads
    /\ loads' = loads \ {h}
    /\ readFileContentOk(disk, h)

(* The file holds the save of document st, and nothing else.               *)
HoldsSaveOf(h, st) ==
    readFileContent(disk, h) = stringify(st.elements, st.appState, st.files)

(* A member is absent when the object has no value for it.                 *)
Absent(obj, key) == Get(obj, key) = "undefined"

DefaultOf(key) ==
    IF key = "viewBackgroundColor" THEN "s:#ffffff"
    ELSE IF key = "currentItemFontFamily" THEN "n:2"
    ELSE IF key = "currentItemRoughness" THEN "n:0"
    ELSE "undefined"

(* The appState the reload is said to give: the saved one without the      *)
(* collaborators, the three defaults filled in where the member is absent. *)
FilledWhenAbsent(appState, key) ==
    IF key = "collaborators" THEN "undefined"
    ELSE IF Absent(appState, key) THEN DefaultOf(key)
    ELSE Get(appState, key)

(* The appState the reload gives: the background is also replaced when it  *)
(* is present but falsy, font family and roughness when they are null.     *)
FilledWhenUnusable(appState, key) ==
    LET v == Get(appState, key)
    IN  IF key = "collaborators" THEN "undefined"
        ELSE IF key = "viewBackgroundColor"
             THEN IF v \in {"undefined", "null", "s:", "n:0"} THEN "s:#ffffff" ELSE v
        ELSE IF key \in {"currentItemFontFamily", "currentItemRoughness"}
             THEN IF v \in {"undefined", "null"} THEN DefaultOf(key) ELSE v
        ELSE v

(* C18 as stated: saving a document and loading the same file yields the   *)
(* saved elements and files, and the saved appState except that the        *)
(* collaborators are removed and viewBackgroundColor, font family and      *)
(* roughness are '#ffffff', 2 and 0 when absent.                           *)
C18_RoundTripFillsAbsent ==
    [][\A h \in loads :
          LoadReads(h) =>
             \A st \in RoundTripDocuments :
                HoldsSaveOf(h, st) =>
                   /\ initialData'.loaded
                   /\ initialData'.elements = st.elements
                   /\ initialData'.files = st.files
                   /\ \A key \in AppStateKeys :
                         Get(initialData'.appState, key) = FilledWhenAbsent(st.appState, key)]_vars

(* C18: saving a document and loading the same file yields the saved       *)
(* elements and files, and the saved appState except that the              *)
(* collaborators are removed, viewBackgroundColor is '#ffffff' when absent *)
(* or falsy (the empty string, null), and font family and roughness are 2  *)
(* and 0 when absent or null.                                              *)
C18_RoundTrip ==
    [][\A h \in loads :
          LoadReads(h) =>
             \A st \in RoundTripDocuments :
                HoldsSaveOf(h, st) =>
                   /\ initialData'.loaded
                   /\ initialData'.elements = st.elements
                   /\ initialData'.files = st.files
                   /\ \A key \in AppStateKeys :
                         Get(initialData'.appState, key) = FilledWhenUnusable(st.appState, key)]_vars

(* A document with an empty background colour, a collaborators Map, an     *)
(* image and no font family was saved over the file's earlier content and  *)
(* loaded again: the background is white, the font family 2.               *)
C18_Witness ==
    /\ burst.writes = 1
    /\ saves = {} /\ loads = {}
    /\ Mounted
    /\ selectedFile.handle = burst.wfile
    /\ readFileContentOk(disk, burst.wfile)
    /\ readFileContent(disk, burst.wfile) = burst.wcontent
    /\ burst.wcontent # SavedText
    /\ LET saved == parse(burst.wcontent)
       IN  /\ saved.elements # <<>>
           /\ saved.files # {}
           /\ Get(saved.appState, "viewBackgroundColor") = "s:"
           /\ Get(saved.appState, "collaborators") = "o:{}"
           /\ Absent(saved.appState, "currentItemFontFamily")
           /\ initialData = loadedData(burst.wcontent)
           /\ initialData.elements = saved.elements
           /\ Get(initialData.appState, "viewBackgroundColor") = "s:#ffffff"
           /\ Get(initialData.appState, "currentItemFontFamily") = "n:2"
           /\ Absent(initialData.appState, "collaborators")

-----------------------------------------------------------------------------
(* Claims about selections that change while loads and saves are pending   *)

(* The shape each file held when the directory was opened.                 *)
ShapeOf(h) == IF h = Append(Root1, nAx) THEN "rect" ELSE "ellipse"

(* The scene holds a shape that came from another file than h.             *)
Foreign(h, elements) ==
    \E k \in DOMAIN elements : elements[k] \in {"rect", "ellipse"} \ {ShapeOf(h)}

(* C19: no cross-file contamination: what is written to a file is a state  *)
(* the engine reported while it showed the document loaded from that file; *)
(* content loaded from or edited in one file is never written to another.  *)
C19_NoCrossFileContamination ==
    /\ \A s \in saves : ~Foreign(s.file, parse(s.content).elements)
    /\ \A h \in DOMAIN disk :
          IsFile(disk, h) /\ parseOk(disk[h].content) =>
             ~Foreign(h, parse(disk[h].content).elements)

(* The pending load of h settles after the selection has moved on to       *)
(* another file and the effects of that selection have run.                *)
StaleLoad(h) ==
    /\ h \in loads
    /\ loads' = loads \ {h}
    /\ seenSelection = selectedFile
    /\ selectedFile = NoNode \/ selectedFile.handle # h

(* C20: a load started for an earlier selection that completes after the   *)
(* selection has changed sets neither the displayed document nor the error *)
(* state: what the editor holds is the outcome of reading the selected     *)
(* file.                                                                   *)
C20_StaleLoadIgnored ==
    [][\A h \in loads : StaleLoad(h) => UNCHANGED <<initialData, error>>]_vars

-----------------------------------------------------------------------------
(* Claims about the selection and the tree snapshot                        *)

(* deleteEntry's removeEntry has resolved in this step.                    *)
Removes(i) == ops[i].kind = "delete" /\ ops[i].pc = "fs" /\ ops'[i].pc = "scan"

NameSelected(name) == selectedFile # NoNode /\ selectedFile.name = name

(* C21: once deleteEntry(parent, name) has removed the entry, the          *)
(* selection becomes none whenever the selected node's name is name, under *)
(* whichever parent it lies, and is left as it was whenever the names      *)
(* differ (no click having landed during the await of the removal).        *)
C21_SelectionClearedByName ==
    [][\A i \in OpIds :
          Removes(i) /\ ops[i].solo =>
             selectedFile' = IF NameSelected(ops[i].name) THEN NoNode ELSE selectedFile]_vars

(* An entry was removed under another directory than the selected file's,  *)
(* with the same name: the selection is gone, the file is still there.     *)
C21_Witness ==
    \E i \in OpIds :
        /\ ops[i].kind = "delete" /\ ops[i].pc = "scan" /\ ops[i].solo
        /\ ops[i].sel # NoNode
        /\ ops[i].sel.name = ops[i].name
        /\ Parent(ops[i].sel.handle) # ops[i].parent
        /\ IsFile(disk, ops[i].sel.handle)
        /\ selectedFile = NoNode

(* The scan an operation awaits rejects in this step: the enumeration of   *)
(* the root or of a directory below it has failed.                         *)
ScanFails(i) ==
    /\ ops[i].kind \in {"open", "restore", "file", "folder", "delete", "move"}
    /\ ops[i].pc = "scan"
    /\ ops'[i].pc \in {"logged", "failed"}

(* Every node of the snapshot lies under the root.                         *)
TreeUnderRoot ==
    \A n \in NodesOf(fileTree) :
        /\ rootHandle # NoHandle
        /\ Len(n.handle) > Len(rootHandle)
        /\ SubSeq(n.handle, 1, Len(rootHandle)) = rootHandle

(* C22: a failing scan changes no session state: no partial tree is        *)
(* stored, and root, tree and selection are what they were before the      *)
(* operation that started the scan (for restoreDirectory: no root), so the *)
(* tree is a scan of the current root.                                     *)
C22_FailingScanChangesNothing ==
    [][\A i \in OpIds :
          ScanFails(i) =>
             /\ UNCHANGED <<rootHandle, fileTree, selectedFile>>
             /\ TreeUnderRoot'
             /\ ops[i].kind = "restore" => rootHandle' = NoHandle]_vars

(* What does hold: the failing scan leaves the tree and the selection.     *)
C22_FailingScanKeepsTree ==
    [][\A i \in OpIds : ScanFails(i) => UNCHANGED <<fileTree, selectedFile>>]_vars

(* C23: in every reachable state the selection is none or a file-kind node *)
(* whose id is the id of a node of the current tree snapshot.              *)
C23_SelectionInSnapshot ==
    \/ selectedFile = NoNode
    \/ /\ selectedFile.kind = "file"
       /\ \E n \in NodesOf(fileTree) : n.id = selectedFile.id

(* What does hold: a directory is never selected.                          *)
C23_SelectionIsFile == selectedFile = NoNode \/ selectedFile.kind = "file"

-----------------------------------------------------------------------------
(* Claims about operations in flight together (OverlapSpec)                *)

(* createFile, createFolder, deleteEntry or moveFile has been called and   *)
(* has not yet settled.                                                    *)
MutationPending(i) ==
    /\ Mutating(i)
    /\ ops[i].pc \in {"fs", "mv_read", "mv_create", "mv_write", "mv_remove",
                      "scan", "commit"}

(* C24: at most one mutating operation is in flight at any time: the       *)
(* explorer cannot start one while an earlier one has not completed, so    *)
(* two refresh scans never overlap.                                        *)
C24_OneMutationInFlight ==
    \A i, j \in OpIds : MutationPending(i) /\ MutationPending(j) => i = j

(* Its consequence: when no operation is in flight, the snapshot is a scan *)
(* of the directory as it is (no scan that started earlier has replaced a  *)
(* later one).                                                             *)
C24_SnapshotCurrentWhenQuiet ==
    rootHandle # NoHandle /\ (\A i \in OpIds : ~InFlight(i)) =>
        IsScanOf(fileTree, rootHandle)

=============================================================================
